---- MODULE Spec2Model ----
(***************************************************************************)
(* ConcurrentScheduler (src/ConcurrentScheduler.js): a promise based task  *)
(* scheduler with a bound on the number of running tasks.                  *)
(*                                                                         *)
(* The scheduler runs on the JavaScript event loop.  Every reaction of the *)
(* promise chain built by executeNext is one job of the microtask queue,   *)
(* and jobs run in FIFO order, one at a time, each to completion:          *)
(*   Promise.resolve()                                                     *)
(*     .then(() => nextTask.task())            job "invoke"                *)
(*     .then(result => {...resolve(result)})   job "then"                  *)
(*     .catch(error => {...reject(error)})     job "catch"                 *)
(*     .finally(() => {runningCount--; executeNext()})   job "finally"     *)
(* The caller's reaction on the promise returned by addTask is job "cont". *)
(***************************************************************************)
EXTENDS Integers, Sequences, FiniteSets

\* ---- bounds of the model ----
MaxTasks == 3        \* number of addTask calls explored
MaxConcArg == 2      \* largest explicit constructor argument explored
NumPayloads == 1     \* distinct values / errors a work can produce

\* ---- program constants ----
DefaultMaxConcurrent == 3

\* the constructor's argument: omitted (undefined), or an integer
Undefined == [given |-> FALSE, value |-> 0]
CtorArgs == {Undefined} \cup [given : {TRUE}, value : 0 .. MaxConcArg]
Payloads == 1 .. NumPayloads
Outcomes == [kind : {"value", "error"}, payload : Payloads]
NoOutcome == [kind |-> "none", payload |-> 0]
NoSnapshot == [maxConcurrent |-> -1, running |-> -1, waiting |-> -1, tasks |-> <<>>]

VARIABLES
  maxConcurrent,  \* this.maxConcurrent
  runningCount,   \* this.runningCount
  taskQueue,      \* this.taskQueue: sequence of the ids of the queued records
  taskId,         \* this.taskId
  status,         \* status[i]: taskWrapper.status of the record with id i
  work,           \* work[i]: "idle" | "executing" | "settled" (the task function)
  outcome,        \* outcome[i]: what the work of i produced (value or error)
  p1,             \* p1[i]: promise returned by .then(() => nextTask.task())
  p2,             \* p2[i]: promise returned by .then(result => ...)
  signals,        \* signals[i]: calls of taskWrapper.resolve / reject, in order
  observed,       \* observed[i]: getStatus() as seen by the caller's reaction
  microtasks,     \* the microtask queue of the event loop
  dispatched,     \* ids in the order in which executeNext logged their start
  released,       \* ids for which the finally handler has logged the finish
  snapshot        \* value returned by getStatus, until the next step

vars == <<maxConcurrent, runningCount, taskQueue, taskId, status, work, outcome,
          p1, p2, signals, observed, microtasks, dispatched, released,
          snapshot>>

schedVars == <<maxConcurrent, runningCount, taskQueue, taskId, status>>

Pending == [state |-> "pending", value |-> 0]
Fulfilled(v) == [state |-> "fulfilled", value |-> v]
Rejected(e) == [state |-> "rejected", value |-> e]

Job(kind, i) == [job |-> kind, id |-> i]

\* constructor(maxConcurrent = 3)
Constructor(arg) == IF arg = Undefined THEN DefaultMaxConcurrent ELSE arg.value

Init ==
  /\ \E arg \in CtorArgs : maxConcurrent = Constructor(arg)
  /\ runningCount = 0
  /\ taskQueue = <<>>
  /\ taskId = 0
  /\ status = <<>>
  /\ work = <<>>
  /\ outcome = <<>>
  /\ p1 = <<>>
  /\ p2 = <<>>
  /\ signals = <<>>
  /\ observed = <<>>
  /\ microtasks = <<>>
  /\ dispatched = <<>>
  /\ released = {}
  /\ snapshot = NoSnapshot

\* a dispatch without nextTask.status = 'running'
DispatchNoStatus(s) ==
  LET nextTask == Head(s.taskQueue) IN
    [runningCount |-> s.runningCount + 1,
     taskQueue |-> Tail(s.taskQueue),
     status |-> s.status,
     microtasks |-> Append(s.microtasks, Job("invoke", nextTask)),
     dispatched |-> Append(s.dispatched, nextTask)]

\* a dispatch that reads taskQueue[0] and leaves it in the queue
DispatchKeepsHead(s) ==
  LET nextTask == Head(s.taskQueue) IN
    [runningCount |-> s.runningCount + 1,
     taskQueue |-> s.taskQueue,
     status |-> [s.status EXCEPT ![nextTask] = "running"],
     microtasks |-> Append(s.microtasks, Job("invoke", nextTask)),
     dispatched |-> Append(s.dispatched, nextTask)]

\* the dispatch of executeNext: the head of the queue becomes running, and
\* the first reaction of its promise chain is queued
Dispatch(s) ==
  LET nextTask == Head(s.taskQueue) IN
    [runningCount |-> s.runningCount + 1,
     taskQueue |-> Tail(s.taskQueue),
     status |-> [s.status EXCEPT ![nextTask] = "running"],
     microtasks |-> Append(s.microtasks, Job("invoke", nextTask)),
     dispatched |-> Append(s.dispatched, nextTask)]

\* executeNext without the test of runningCount against maxConcurrent
executeNextNoLimit(s) ==
  IF s.taskQueue = <<>> THEN s ELSE Dispatch(s)

\* executeNext without runningCount++
executeNextNoIncrement(s) ==
  IF s.runningCount >= maxConcurrent THEN s
  ELSE IF s.taskQueue = <<>> THEN s
  ELSE [Dispatch(s) EXCEPT !.runningCount = s.runningCount]

\* executeNext taking the record with taskQueue.pop() instead of shift()
executeNextLIFO(s) ==
  IF s.runningCount >= maxConcurrent THEN s
  ELSE IF s.taskQueue = <<>> THEN s
  ELSE LET n == Len(s.taskQueue)
           nextTask == s.taskQueue[n]
       IN [runningCount |-> s.runningCount + 1,
           taskQueue |-> SubSeq(s.taskQueue, 1, n - 1),
           status |-> [s.status EXCEPT ![nextTask] = "running"],
           microtasks |-> Append(s.microtasks, Job("invoke", nextTask)),
           dispatched |-> Append(s.dispatched, nextTask)]

\* executeNext testing runningCount > maxConcurrent
executeNextOffByOne(s) ==
  IF s.runningCount > maxConcurrent THEN s
  ELSE IF s.taskQueue = <<>> THEN s
  ELSE LET nextTask == Head(s.taskQueue) IN
    [runningCount |-> s.runningCount + 1,
     taskQueue |-> Tail(s.taskQueue),
     status |-> [s.status EXCEPT ![nextTask] = "running"],
     microtasks |-> Append(s.microtasks, Job("invoke", nextTask)),
     dispatched |-> Append(s.dispatched, nextTask)]

\* executeNext testing runningCount + 1 >= maxConcurrent
executeNextTooStrict(s) ==
  IF s.runningCount + 1 >= maxConcurrent THEN s
  ELSE IF s.taskQueue = <<>> THEN s
  ELSE LET nextTask == Head(s.taskQueue) IN
    [runningCount |-> s.runningCount + 1,
     taskQueue |-> Tail(s.taskQueue),
     status |-> [s.status EXCEPT ![nextTask] = "running"],
     microtasks |-> Append(s.microtasks, Job("invoke", nextTask)),
     dispatched |-> Append(s.dispatched, nextTask)]

\* executeNext(), on the part of the state it reads and writes
executeNext(s) ==
  IF s.runningCount >= maxConcurrent THEN s
  ELSE IF s.taskQueue = <<>> THEN s
  ELSE Dispatch(s)

\* getStatus()
getStatus ==
  [maxConcurrent |-> maxConcurrent,
   running |-> runningCount,
   waiting |-> Len(taskQueue),
   tasks |-> [k \in 1 .. Len(taskQueue) |->
                [id |-> taskQueue[k], status |-> status[taskQueue[k]]]]]

\* addTask taking the id from taskId + 1 without storing it back
addTaskNoIncrement ==
  /\ taskId < MaxTasks
  /\ Len(status) < MaxTasks
  /\ LET id == taskId + 1
         s == [runningCount |-> runningCount,
               taskQueue |-> Append(taskQueue, id),
               status |-> Append(status, "pending"),
               microtasks |-> microtasks,
               dispatched |-> dispatched]
     IN /\ taskId' = taskId
        /\ runningCount' = s.runningCount
        /\ taskQueue' = s.taskQueue
        /\ status' = s.status
        /\ microtasks' = s.microtasks
        /\ dispatched' = s.dispatched
  /\ work' = Append(work, "idle")
  /\ outcome' = Append(outcome, NoOutcome)
  /\ p1' = Append(p1, Pending)
  /\ p2' = Append(p2, Pending)
  /\ signals' = Append(signals, <<>>)
  /\ observed' = Append(observed, NoSnapshot)
  /\ snapshot' = NoSnapshot
  /\ UNCHANGED <<maxConcurrent, released>>

\* addTask(task): the executor of the returned promise runs synchronously.
\* The call comes from a task of the event loop, from inside a work or from a
\* reaction, hence at any point between two jobs.
addTask ==
  /\ taskId < MaxTasks
  /\ LET id == taskId + 1
         s == executeNext([runningCount |-> runningCount,
                           taskQueue |-> Append(taskQueue, id),
                           status |-> Append(status, "pending"),
                           microtasks |-> microtasks,
                           dispatched |-> dispatched])
     IN /\ taskId' = id
        /\ runningCount' = s.runningCount
        /\ taskQueue' = s.taskQueue
        /\ status' = s.status
        /\ microtasks' = s.microtasks
        /\ dispatched' = s.dispatched
  /\ work' = Append(work, "idle")
  /\ outcome' = Append(outcome, NoOutcome)
  /\ p1' = Append(p1, Pending)
  /\ p2' = Append(p2, Pending)
  /\ signals' = Append(signals, <<>>)
  /\ observed' = Append(observed, NoSnapshot)
  /\ snapshot' = NoSnapshot
  /\ UNCHANGED <<maxConcurrent, released>>

\* the work of i settles with outcome o: p1[i] takes the outcome and its
\* reaction (the "then" job) is queued
Settle(i, o, mt) ==
  /\ work' = [work EXCEPT ![i] = "settled"]
  /\ outcome' = [outcome EXCEPT ![i] = o]
  /\ p1' = [p1 EXCEPT ![i] = IF o.kind = "value" THEN Fulfilled(o.payload)
                                                 ELSE Rejected(o.payload)]
  /\ microtasks' = Append(mt, Job("then", i))

HeadIs(kind) == microtasks # <<>> /\ Head(microtasks).job = kind

\* .then(() => nextTask.task()): the work is invoked.  It returns a value or
\* throws at once, or returns a promise that settles later.
InvokeJob ==
  /\ HeadIs("invoke")
  /\ LET i == Head(microtasks).id IN
       \/ /\ work' = [work EXCEPT ![i] = "executing"]
          /\ microtasks' = Tail(microtasks)
          /\ UNCHANGED <<outcome, p1>>
       \/ \E o \in Outcomes : Settle(i, o, Tail(microtasks))
  /\ snapshot' = NoSnapshot
  /\ UNCHANGED <<schedVars, p2, signals, observed, dispatched, released>>

\* the promise returned by the work of i settles
WorkSettles(i) ==
  /\ i \in 1 .. taskId
  /\ work[i] = "executing"
  /\ \E o \in Outcomes : Settle(i, o, microtasks)
  /\ snapshot' = NoSnapshot
  /\ UNCHANGED <<schedVars, p2, signals, observed, dispatched, released>>

\* resolve() / reject() called without the value it was given
SignalUndefined(sig, i, via, payload) == Append(sig[i], [via |-> via, payload |-> 0])

\* taskWrapper.resolve / taskWrapper.reject: the first call settles the
\* caller's promise and queues the caller's reaction
Signal(sig, i, via, payload) == Append(sig[i], [via |-> via, payload |-> payload])
Reactions(sig, i) == IF sig[i] = <<>> THEN <<Job("cont", i)>> ELSE <<>>

\* a success handler with an empty rejection handler, .then(ok, () => {}):
\* the error of the work is swallowed
ThenJobSwallows ==
  /\ HeadIs("then")
  /\ LET i == Head(microtasks).id IN
       IF p1[i].state = "fulfilled"
       THEN /\ status' = [status EXCEPT ![i] = "completed"]
            /\ signals' = [signals EXCEPT ![i] = Append(signals[i],
                              [via |-> "resolve", payload |-> p1[i].value])]
            /\ p2' = [p2 EXCEPT ![i] = Fulfilled(0)]
            /\ microtasks' = Tail(microtasks)
                               \o (IF signals[i] = <<>> THEN <<Job("cont", i)>> ELSE <<>>)
                               \o <<Job("catch", i)>>
       ELSE /\ p2' = [p2 EXCEPT ![i] = Fulfilled(0)]
            /\ microtasks' = Append(Tail(microtasks), Job("catch", i))
            /\ UNCHANGED <<status, signals>>
  /\ snapshot' = NoSnapshot
  /\ UNCHANGED <<maxConcurrent, runningCount, taskQueue, taskId, work, outcome,
                 p1, observed, dispatched, released>>

\* .then(result => { status = 'completed'; resolve(result) })
ThenJob ==
  /\ HeadIs("then")
  /\ LET i == Head(microtasks).id IN
       IF p1[i].state = "fulfilled"
       THEN /\ status' = [status EXCEPT ![i] = "completed"]
            /\ signals' = [signals EXCEPT ![i] = Signal(signals, i, "resolve", p1[i].value)]
            /\ p2' = [p2 EXCEPT ![i] = Fulfilled(0)]
            /\ microtasks' = Tail(microtasks) \o Reactions(signals, i)
                               \o <<Job("catch", i)>>
       ELSE /\ p2' = [p2 EXCEPT ![i] = Rejected(p1[i].value)]
            /\ microtasks' = Append(Tail(microtasks), Job("catch", i))
            /\ UNCHANGED <<status, signals>>
  /\ snapshot' = NoSnapshot
  /\ UNCHANGED <<maxConcurrent, runningCount, taskQueue, taskId, work, outcome,
                 p1, observed, dispatched, released>>

\* a chain whose slot release follows the success handler only: after a
\* failure the "finally" job is not queued
CatchJobNoFinally ==
  /\ HeadIs("catch")
  /\ LET i == Head(microtasks).id IN
       IF p2[i].state = "rejected"
       THEN /\ status' = [status EXCEPT ![i] = "failed"]
            /\ signals' = [signals EXCEPT ![i] = Append(signals[i],
                              [via |-> "reject", payload |-> p2[i].value])]
            /\ microtasks' = Tail(microtasks)
                               \o (IF signals[i] = <<>> THEN <<Job("cont", i)>> ELSE <<>>)
       ELSE /\ microtasks' = Append(Tail(microtasks), Job("finally", i))
            /\ UNCHANGED <<status, signals>>
  /\ snapshot' = NoSnapshot
  /\ UNCHANGED <<maxConcurrent, runningCount, taskQueue, taskId, work, outcome,
                 p1, p2, observed, dispatched, released>>

\* a handler attached with .then(h, h) instead of .catch(h): it marks the
\* record failed after a success too
CatchJobMarksAlways ==
  /\ HeadIs("catch")
  /\ LET i == Head(microtasks).id IN
       /\ status' = [status EXCEPT ![i] = "failed"]
       /\ IF p2[i].state = "rejected"
          THEN /\ signals' = [signals EXCEPT ![i] = Append(signals[i],
                                 [via |-> "reject", payload |-> p2[i].value])]
               /\ microtasks' = Tail(microtasks)
                                  \o (IF signals[i] = <<>> THEN <<Job("cont", i)>> ELSE <<>>)
                                  \o <<Job("finally", i)>>
          ELSE /\ microtasks' = Append(Tail(microtasks), Job("finally", i))
               /\ UNCHANGED signals
  /\ snapshot' = NoSnapshot
  /\ UNCHANGED <<maxConcurrent, runningCount, taskQueue, taskId, work, outcome,
                 p1, p2, observed, dispatched, released>>

\* a chain that rejects the caller's promise after the release of the slot:
\* the caller's reaction is queued behind the "finally" job
CatchJobReleaseFirst ==
  /\ HeadIs("catch")
  /\ LET i == Head(microtasks).id IN
       IF p2[i].state = "rejected"
       THEN /\ status' = [status EXCEPT ![i] = "failed"]
            /\ signals' = [signals EXCEPT ![i] = Append(signals[i],
                              [via |-> "reject", payload |-> p2[i].value])]
            /\ microtasks' = Tail(microtasks) \o <<Job("finally", i)>>
                               \o (IF signals[i] = <<>> THEN <<Job("cont", i)>> ELSE <<>>)
       ELSE /\ microtasks' = Append(Tail(microtasks), Job("finally", i))
            /\ UNCHANGED <<status, signals>>
  /\ snapshot' = NoSnapshot
  /\ UNCHANGED <<maxConcurrent, runningCount, taskQueue, taskId, work, outcome,
                 p1, p2, observed, dispatched, released>>

\* .catch(error => { status = 'failed'; reject(error) })
CatchJob ==
  /\ HeadIs("catch")
  /\ LET i == Head(microtasks).id IN
       IF p2[i].state = "rejected"
       THEN /\ status' = [status EXCEPT ![i] = "failed"]
            /\ signals' = [signals EXCEPT ![i] = Signal(signals, i, "reject", p2[i].value)]
            /\ microtasks' = Tail(microtasks) \o Reactions(signals, i)
                               \o <<Job("finally", i)>>
       ELSE /\ microtasks' = Append(Tail(microtasks), Job("finally", i))
            /\ UNCHANGED <<status, signals>>
  /\ snapshot' = NoSnapshot
  /\ UNCHANGED <<maxConcurrent, runningCount, taskQueue, taskId, work, outcome,
                 p1, p2, observed, dispatched, released>>

\* a finally handler that releases the slot without calling executeNext
FinallyJobNoDispatch ==
  /\ HeadIs("finally")
  /\ LET i == Head(microtasks).id IN
       /\ runningCount' = runningCount - 1
       /\ microtasks' = Tail(microtasks)
       /\ released' = released \cup {i}
  /\ snapshot' = NoSnapshot
  /\ UNCHANGED <<maxConcurrent, taskQueue, taskId, status, work, outcome, p1, p2,
                 signals, observed, dispatched>>

\* .finally(() => { runningCount--; console.log(...); executeNext() })
FinallyJob ==
  /\ HeadIs("finally")
  /\ LET i == Head(microtasks).id
         s == executeNext([runningCount |-> runningCount - 1,
                           taskQueue |-> taskQueue,
                           status |-> status,
                           microtasks |-> Tail(microtasks),
                           dispatched |-> dispatched])
     IN /\ runningCount' = s.runningCount
        /\ taskQueue' = s.taskQueue
        /\ status' = s.status
        /\ microtasks' = s.microtasks
        /\ dispatched' = s.dispatched
        /\ released' = released \cup {i}
  /\ snapshot' = NoSnapshot
  /\ UNCHANGED <<maxConcurrent, taskId, work, outcome, p1, p2, signals, observed>>

\* the caller's reaction on the promise returned by addTask (attached when
\* addTask returned): it calls getStatus
ContJob ==
  /\ HeadIs("cont")
  /\ LET i == Head(microtasks).id IN
       observed' = [observed EXCEPT ![i] = getStatus]
  /\ microtasks' = Tail(microtasks)
  /\ snapshot' = NoSnapshot
  /\ UNCHANGED <<schedVars, work, outcome, p1, p2, signals, dispatched, released>>

\* a getStatus that empties the queue while it reads it
CallGetStatusDraining ==
  /\ microtasks = <<>>
  /\ snapshot' = getStatus
  /\ taskQueue' = <<>>
  /\ UNCHANGED <<maxConcurrent, runningCount, taskId, status, work, outcome,
                 p1, p2, signals, observed, microtasks, dispatched, released>>

\* getStatus() called from a task of the event loop (a timer, top-level code):
\* such a task starts only when no job is queued.  A call from a job is ContJob.
CallGetStatus ==
  /\ microtasks = <<>>
  /\ snapshot' = getStatus
  /\ UNCHANGED <<schedVars, work, outcome, p1, p2, signals, observed,
                 microtasks, dispatched, released>>

RunMicrotask == InvokeJob \/ ThenJob \/ CatchJob \/ FinallyJob \/ ContJob

Next ==
  \/ addTask
  \/ InvokeJob
  \/ ThenJob
  \/ CatchJob
  \/ FinallyJob
  \/ ContJob
  \/ \E i \in 1 .. MaxTasks : WorkSettles(i)
  \/ CallGetStatus

Spec == Init /\ [][Next]_vars

\* the event loop always runs the next job, and every invoked work settles
FairSpec ==
  /\ Spec
  /\ WF_vars(RunMicrotask)
  /\ \A i \in 1 .. MaxTasks : WF_vars(WorkSettles(i))

\* ---- vocabulary of the properties ----
Ids == 1 .. taskId
Terminal(i) == status[i] \in {"completed", "failed"}
Executing == {i \in Ids : work[i] = "executing"}
WithStatus(st) == {i \in Ids : status[i] = st}
Range(f) == {f[k] : k \in DOMAIN f}
\* the records that runningCount counts: dispatched, slot not yet released
Counted == Range(dispatched) \ released
HasJob(kind, i) == \E k \in 1 .. Len(microtasks) : microtasks[k] = Job(kind, i)
Quiescent == microtasks = <<>> /\ Executing = {}

\* C1: for a scheduler constructed with an integer maxConcurrent >= 1, in every
\* state reachable by addTask calls and settlements (success or failure),
\* 0 <= runningCount <= maxConcurrent.
ConcurrencyBound ==
  maxConcurrent >= 1 => (0 <= runningCount /\ runningCount <= maxConcurrent)

\* all slots taken, a task waiting for one, after an earlier task has finished
ConcurrencyBoundWitness ==
  /\ maxConcurrent >= 1
  /\ runningCount = maxConcurrent
  /\ taskQueue # <<>>
  /\ released # {}

\* C2: the number of tasks whose work has been invoked and has not settled is
\* at most maxConcurrent: a work is invoked only once its record is counted in
\* runningCount and has settled before runningCount is decremented for it.
\* With maxConcurrent = 1 the work of a later task is not invoked before the
\* work of every earlier task has settled.
WorksNeverExceedBound ==
  /\ Cardinality(Executing) <= maxConcurrent
  /\ \A i \in Ids : work[i] = "executing" => i \in Counted /\ status[i] = "running"
  /\ \A i \in Ids : work[i] # "idle" => i \in Range(dispatched)
  /\ \A i \in released : work[i] = "settled"
  /\ runningCount = Cardinality(Counted)
  /\ maxConcurrent = 1 =>
       \A i, j \in Ids : (i < j /\ work[j] # "idle") => work[i] = "settled"

\* as many works in progress as there are slots, and a task waiting
WorksNeverExceedBoundWitness ==
  /\ maxConcurrent >= 1
  /\ Cardinality(Executing) = maxConcurrent
  /\ taskQueue # <<>>
  /\ \E i \in Ids : work[i] = "settled"

\* C3: tasks are dispatched in submission order: if A was submitted before B
\* and both are pending, A becomes running no later than B; the ids dispatched
\* by executeNext are strictly ascending.
IsAscending(ids) == \A k, l \in 1 .. Len(ids) : k < l => ids[k] < ids[l]
FifoDispatch ==
  /\ [](IsAscending(dispatched)
        /\ \A a, b \in Ids : (a < b /\ status[a] = "pending") => status[b] = "pending")
  /\ [][\A a, b \in Ids :
          (a < b /\ status[a] = "pending" /\ status[b] = "pending"
             /\ status'[b] # "pending") => status'[a] # "pending"]_vars

\* tasks 2 and 3 waited together when task 1 settled; 2 runs and 3 still waits
FifoDispatchWitness ==
  /\ taskId = 3
  /\ observed[1].waiting = 2
  /\ status[2] = "running"
  /\ status[3] = "pending"

\* C4: the resolve or reject of a task's promise is called at most once, never
\* both, and exactly once after the work has settled; resolve carries exactly
\* the value of the work, reject exactly its error; neither is called while the
\* task is pending or before its work has settled.
Mirrors(i) ==
  signals[i][1] = [via |-> IF outcome[i].kind = "value" THEN "resolve" ELSE "reject",
                   payload |-> outcome[i].payload]
ExactlyOnceSettlement ==
  \A i \in Ids :
    /\ Len(signals[i]) <= 1
    /\ signals[i] # <<>> =>
         /\ work[i] = "settled"
         /\ status[i] # "pending"
         /\ Mirrors(i)
    /\ (work[i] = "settled" /\ ~HasJob("then", i) /\ ~HasJob("catch", i)) =>
         Len(signals[i]) = 1

\* one promise resolved and one rejected
ExactlyOnceSettlementWitness ==
  \E i, j \in Ids :
    /\ Len(signals[i]) = 1 /\ signals[i][1].via = "resolve"
    /\ Len(signals[j]) = 1 /\ signals[j][1].via = "reject"

\* C5: a failing task is isolated.  The step that marks it failed leaves
\* maxConcurrent, runningCount, the queue and the other records alone and
\* queues the release of its slot; the release decrements runningCount and
\* dispatches as for a successful task; and once a task has failed, the tasks
\* behind it are still dispatched and settled with their own outcome.
Fails(i) == status[i] # "failed" /\ status'[i] = "failed"
Releases(i) == i \notin released /\ i \in released'
FailureIsolation ==
  /\ [][maxConcurrent' = maxConcurrent]_vars
  /\ [][\A i \in Ids : Fails(i) =>
          /\ runningCount' = runningCount
          /\ taskQueue' = taskQueue
          /\ \A j \in Ids \ {i} : status'[j] = status[j]
          /\ microtasks'[Len(microtasks')] = Job("finally", i)]_vars
  /\ [][\A i \in Ids : Releases(i) =>
          IF taskQueue # <<>> /\ runningCount - 1 < maxConcurrent
          THEN /\ runningCount' = runningCount
               /\ taskQueue' = Tail(taskQueue)
               /\ status' = [status EXCEPT ![Head(taskQueue)] = "running"]
          ELSE /\ runningCount' = runningCount - 1
               /\ UNCHANGED <<taskQueue, status>>]_vars
  /\ []((Quiescent /\ WithStatus("failed") # {}) =>
          /\ runningCount = 0
          /\ taskQueue = <<>>
          /\ \A i \in Ids : Terminal(i) /\ Len(signals[i]) = 1 /\ Mirrors(i)
          /\ \A i \in Ids : status[i] = "failed" <=> outcome[i].kind = "error")

\* task 1 failed while a task was waiting behind it; that task has completed
FailureIsolationWitness ==
  /\ Quiescent
  /\ taskId >= 2
  /\ status[1] = "failed"
  /\ observed[1].waiting >= 1
  /\ status[2] = "completed"

\* C6: drain completeness: once no more tasks are submitted, and as every
\* invoked work settles and every queued job runs, every submitted task
\* reaches completed or failed, the queue becomes empty, and runningCount
\* returns to 0 and stays 0.
Drained ==
  /\ \A i \in Ids : Terminal(i)
  /\ taskQueue = <<>>
  /\ runningCount = 0
DrainCompleteness == <>[]Drained

\* C7: at every instant at which getStatus can be called, the reported running
\* is the number of tasks whose status is running and the reported waiting is
\* the number of tasks whose status is pending.
Accurate(snap) ==
  /\ snap.running = Cardinality(WithStatus("running"))
  /\ snap.waiting = Cardinality(WithStatus("pending"))
StatusAccuracy ==
  /\ [](snapshot # NoSnapshot => Accurate(snapshot))
  /\ [][\A i \in Ids :
          (observed[i] = NoSnapshot /\ observed'[i] # NoSnapshot) =>
             (status' = status /\ Accurate(observed'[i]))]_vars

\* C8: a single task whose work fails with error E, on a fresh scheduler: its
\* promise rejects with E, and getStatus called once the caller has observed
\* the rejection reports running = 0 and waiting = 0.
SingleFailureStatus ==
  (taskId = 1 /\ outcome[1].kind = "error" /\ observed[1] # NoSnapshot) =>
    /\ signals[1] = <<[via |-> "reject", payload |-> outcome[1].payload]>>
    /\ observed[1].running = 0
    /\ observed[1].waiting = 0

\* C9: getStatus is a pure observation: a call of it, by anyone or by a
\* caller's reaction, leaves maxConcurrent, runningCount, the queue, the id
\* counter and every record's status as they were, and queues no job.
GetStatusCalled == snapshot' # NoSnapshot
ReactionCalled == \E i \in Ids : observed[i] = NoSnapshot /\ observed'[i] # NoSnapshot
GetStatusIsPure ==
  /\ [][GetStatusCalled =>
          UNCHANGED <<maxConcurrent, runningCount, taskQueue, taskId, status,
                      work, outcome, signals, microtasks, dispatched, released>>]_vars
  /\ [][ReactionCalled =>
          /\ UNCHANGED <<maxConcurrent, runningCount, taskQueue, taskId, status,
                         work, outcome, signals, dispatched, released>>
          /\ microtasks' = Tail(microtasks)]_vars

\* getStatus has returned a snapshot with tasks running and tasks waiting
GetStatusIsPureWitness ==
  /\ snapshot # NoSnapshot
  /\ snapshot.running >= 1
  /\ snapshot.waiting >= 2
  /\ snapshot.tasks[1].status = "pending"

\* C10: no scheduler exists whose maxConcurrent is below 1: the constructor
\* rejects such an argument.
MaxConcurrentAtLeastOne == maxConcurrent >= 1

\* C11: addTask and getStatus surface no error.  A work that throws when it is
\* invoked, or whose promise rejects, touches no field of the scheduler at
\* that step: the error goes into the chain only.  It marks only its own record
\* failed and only its own promise is rejected, with that error; no queued or
\* running record is lost.
Throws(i) == work[i] = "idle" /\ work'[i] = "settled" /\ outcome'[i].kind = "error"
RejectsLater(i) == work[i] = "executing" /\ work'[i] = "settled" /\ outcome'[i].kind = "error"
NoRecordLost ==
  \A i \in Ids :
    /\ status[i] = "pending" <=> i \in Range(taskQueue)
    /\ status[i] # "pending" <=> i \in Range(dispatched)
    /\ status[i] = "running" => i \in Counted
ErrorsStayInTheTask ==
  /\ [](NoRecordLost
        /\ \A i \in Ids :
             (outcome[i].kind = "error" /\ ~HasJob("then", i) /\ ~HasJob("catch", i)) =>
                /\ status[i] = "failed"
                /\ signals[i] = <<[via |-> "reject", payload |-> outcome[i].payload]>>)
  /\ [][\A i \in Ids : (Throws(i) \/ RejectsLater(i)) =>
          /\ UNCHANGED <<schedVars, signals, dispatched, released>>
          /\ microtasks'[Len(microtasks')] = Job("then", i)]_vars
  /\ [][\A i \in Ids : Fails(i) =>
          /\ status' = [status EXCEPT ![i] = "failed"]
          /\ signals' = [signals EXCEPT ![i] =
                           <<[via |-> "reject", payload |-> outcome[i].payload]>>]
          /\ UNCHANGED <<taskQueue, runningCount, dispatched, released>>]_vars
  /\ [](taskId < MaxTasks => ENABLED addTask)
  /\ [](microtasks = <<>> => ENABLED CallGetStatus)

\* a task has failed while another one runs and a third one waits
ErrorsStayInTheTaskWitness ==
  \E i, j, k \in Ids :
    /\ status[i] = "failed" /\ i \in released
    /\ status[j] = "running" /\ work[j] = "executing"
    /\ status[k] = "pending"

\* C12: the scheduler never blocks: addTask is accepted in every state, and
\* as long as a task is queued a further step (a job of a chain, or the
\* settlement of a running work) is possible.
NeverBlocks ==
  /\ taskId < MaxTasks => ENABLED addTask
  /\ taskQueue # <<>> => ENABLED (RunMicrotask \/ \E i \in Ids : WorkSettles(i))

\* C13: the status of a record only moves forward, pending -> running ->
\* completed or failed: never back to pending, never from pending to a terminal
\* status, never away from a terminal status.
StatusStep(old, new) ==
  \/ new = old
  \/ old = "pending" /\ new = "running"
  \/ old = "running" /\ new \in {"completed", "failed"}
StatusMovesForward ==
  [][/\ \A i \in Ids : StatusStep(status[i], status'[i])
     /\ \A i \in (1 .. taskId') \ Ids : status'[i] \in {"pending", "running"}]_vars

\* one record of each status
StatusMovesForwardWitness ==
  /\ WithStatus("pending") # {}
  /\ WithStatus("running") # {}
  /\ WithStatus("completed") # {} \/ WithStatus("failed") # {}
  /\ released # {}

\* C14: the queue holds exactly the records whose status is pending, in
\* ascending id order; a record leaves the queue in the step in which it
\* becomes running; getStatus reports waiting = the length of the queue and
\* lists the queued ids in submission order, each with status pending.
ListsPending(snap) ==
  /\ snap.waiting = Len(snap.tasks)
  /\ \A k \in 1 .. Len(snap.tasks) : snap.tasks[k].status = "pending"
  /\ IsAscending([k \in 1 .. Len(snap.tasks) |-> snap.tasks[k].id])
QueueIsThePending ==
  /\ Range(taskQueue) = WithStatus("pending")
  /\ IsAscending(taskQueue)
  /\ Range(taskQueue) \cap Range(dispatched) = {}
  /\ WithStatus("running") \subseteq Range(dispatched)
  /\ getStatus.waiting = Cardinality(WithStatus("pending"))
  /\ getStatus.tasks = [k \in 1 .. Len(taskQueue) |->
                          [id |-> taskQueue[k], status |-> "pending"]]
  /\ snapshot # NoSnapshot => (ListsPending(snapshot) /\ snapshot = getStatus)
  /\ \A i \in Ids : observed[i] # NoSnapshot => ListsPending(observed[i])

\* getStatus has returned, with task 1 running: 2 and 3 waiting, in that order
QueueIsThePendingWitness ==
  /\ taskId = 3
  /\ status[1] = "running"
  /\ snapshot # NoSnapshot
  /\ snapshot.tasks = <<[id |-> 2, status |-> "pending"], [id |-> 3, status |-> "pending"]>>

\* C15: the n-th addTask gets id n, from 1 on; the id counter never decreases
\* and only addTask changes it; no two records share an id.
Occurrences(seq, x) == Cardinality({k \in 1 .. Len(seq) : seq[k] = x})
IdsAreSequential ==
  /\ [](/\ Len(status) = taskId
        /\ \A i \in Ids : Occurrences(taskQueue \o dispatched, i) = 1
        /\ Range(taskQueue \o dispatched) = Ids)
  /\ [][/\ taskId' >= taskId
        /\ Len(status') # Len(status) =>
             /\ taskId' = taskId + 1
             /\ Len(status') = Len(status) + 1
             /\ taskId' \in Range(taskQueue') \cup Range(dispatched')
             /\ taskId' \notin Range(taskQueue) \cup Range(dispatched)
        /\ taskId' # taskId => Len(status') = Len(status) + 1]_vars

\* three submissions: the ids 1, 2 and 3, in the order of the calls
IdsAreSequentialWitness ==
  /\ taskId = 3
  /\ dispatched = <<1, 2>>
  /\ taskQueue = <<3>>

\* C16: a dispatch attempt that finds no free slot or no queued record changes
\* nothing: an addTask with runningCount >= maxConcurrent only appends the new
\* pending record at the tail, and a release that finds the queue empty only
\* decrements runningCount.  Otherwise exactly one record, the head of the
\* queue, is dispatched and runningCount grows by exactly one.
Adds == taskId' = taskId + 1
WithNew == Append(taskQueue, taskId')
DispatchAttempt ==
  /\ [][Adds =>
          IF runningCount >= maxConcurrent
          THEN /\ taskQueue' = WithNew
               /\ status' = Append(status, "pending")
               /\ UNCHANGED <<runningCount, microtasks, dispatched>>
          ELSE /\ taskQueue' = Tail(WithNew)
               /\ status' = [Append(status, "pending") EXCEPT ![Head(WithNew)] = "running"]
               /\ runningCount' = runningCount + 1
               /\ dispatched' = Append(dispatched, Head(WithNew))
               /\ microtasks' = Append(microtasks, Job("invoke", Head(WithNew)))]_vars
  /\ [][\A i \in Ids : Releases(i) =>
          IF runningCount - 1 >= maxConcurrent \/ taskQueue = <<>>
          THEN /\ runningCount' = runningCount - 1
               /\ microtasks' = Tail(microtasks)
               /\ UNCHANGED <<taskQueue, status, dispatched>>
          ELSE /\ taskQueue' = Tail(taskQueue)
               /\ status' = [status EXCEPT ![Head(taskQueue)] = "running"]
               /\ runningCount' = (runningCount - 1) + 1
               /\ dispatched' = Append(dispatched, Head(taskQueue))
               /\ microtasks' = Append(Tail(microtasks), Job("invoke", Head(taskQueue)))]_vars

\* one slot, taken by task 1: the addTask calls of 2 and 3 only queued them
DispatchAttemptWitness ==
  /\ maxConcurrent = 1
  /\ runningCount = 1
  /\ status = <<"running", "pending", "pending">>
  /\ taskQueue = <<2, 3>>
  /\ dispatched = <<1>>

\* C17: dispatch is re-entrant-safe: under every interleaving of submissions
\* and completions no record is dispatched twice, the work of a task is
\* invoked at most once, and runningCount never exceeds maxConcurrent.
InvokeJobs(i) == {k \in 1 .. Len(microtasks) : microtasks[k] = Job("invoke", i)}
DispatchedOnce ==
  /\ \A i \in Ids :
       /\ Occurrences(dispatched, i) <= 1
       /\ Cardinality(InvokeJobs(i)) <= 1
       /\ HasJob("invoke", i) => work[i] = "idle"
       /\ work[i] # "idle" => Occurrences(dispatched, i) = 1
       /\ i \in Range(dispatched) => i \notin Range(taskQueue)
  /\ runningCount <= maxConcurrent

\* a submission between the caller's reaction on task 1 (which saw no task
\* waiting) and the release of the slot of task 1: the new task waits
DispatchedOnceWitness ==
  /\ maxConcurrent = 1
  /\ taskId = 2
  /\ observed[1] # NoSnapshot
  /\ observed[1].waiting = 0
  /\ HasJob("finally", 1)
  /\ taskQueue = <<2>>

\* C18: on every settlement, success or failure, runningCount is decremented
\* exactly once for the task and the dispatch attempt follows in the same
\* step; the decrement comes only after the status is terminal and the handle
\* signaled; settlement and submission are the only triggers of a dispatch.
FinallyJobs(i) == {k \in 1 .. Len(microtasks) : microtasks[k] = Job("finally", i)}
ReleaseThenDispatch ==
  /\ [](\A i \in Ids :
          /\ Cardinality(FinallyJobs(i)) <= 1
          /\ HasJob("finally", i) => (i \notin released /\ Terminal(i) /\ Len(signals[i]) = 1)
          /\ i \in released => (Terminal(i) /\ Len(signals[i]) = 1)
          /\ (Terminal(i) /\ ~HasJob("catch", i) /\ ~HasJob("finally", i)) => i \in released)
  /\ [](runningCount = Cardinality(Counted))
  /\ [][\A i \in Ids : Releases(i) =>
          /\ Terminal(i) /\ Len(signals[i]) = 1
          /\ released' = released \cup {i}
          /\ IF taskQueue # <<>> /\ runningCount - 1 < maxConcurrent
             THEN /\ dispatched' = Append(dispatched, Head(taskQueue))
                  /\ runningCount' = runningCount
             ELSE /\ dispatched' = dispatched
                  /\ runningCount' = runningCount - 1
          /\ runningCount' < maxConcurrent => taskQueue' = <<>>]_vars
  /\ [][/\ dispatched' # dispatched => (Adds \/ \E i \in Ids : Releases(i))
        /\ released' # released => \E i \in Ids : Releases(i)
        /\ runningCount' < runningCount => \E i \in Ids : Releases(i)]_vars

\* one slot: the release of the slot of task 1 has dispatched task 2
ReleaseThenDispatchWitness ==
  /\ maxConcurrent = 1
  /\ taskId >= 2
  /\ released = {1}
  /\ status[2] = "running"
  /\ runningCount = 1
  /\ HasJob("invoke", 2)

\* C19: work conservation, for maxConcurrent >= 1: in every state between two
\* steps a free slot implies an empty queue; a task submitted while a slot is
\* free is the one dispatched, in the addTask step itself.
NoIdleSlotWhileWaiting ==
  /\ [](maxConcurrent >= 1 => (runningCount < maxConcurrent => taskQueue = <<>>))
  /\ [][(maxConcurrent >= 1 /\ Adds /\ runningCount < maxConcurrent) =>
          /\ status'[taskId'] = "running"
          /\ dispatched' = Append(dispatched, taskId')
          /\ taskQueue' = <<>>]_vars

\* two slots, one of them free after a release, and no task waiting
NoIdleSlotWhileWaitingWitness ==
  /\ maxConcurrent = 2
  /\ taskId = 3
  /\ released # {}
  /\ runningCount = 1
  /\ taskQueue = <<>>

\* C20: the promise of a task is resolved or rejected in an earlier step than
\* the one that decrements runningCount for it: when the caller's reaction
\* runs, the status of the record is completed or failed, runningCount still
\* counts the task, and no queued task has been dispatched into its slot.
SignaledBeforeRelease ==
  \A i \in Ids :
    /\ HasJob("cont", i) =>
         /\ Terminal(i)
         /\ Len(signals[i]) = 1
         /\ i \in Counted
         /\ runningCount >= 1
         /\ HasJob("catch", i) \/ HasJob("finally", i)
    /\ observed[i] # NoSnapshot =>
         /\ Terminal(i)
         /\ observed[i].running >= 1
         /\ observed[i].waiting >= 1 => observed[i].running = maxConcurrent
    /\ i \in released => observed[i] # NoSnapshot
    /\ signals[i] # <<>> =>
         (HasJob("cont", i) \/ observed[i] # NoSnapshot)

\* the caller of task 1 has seen its settlement with the slot still counted
\* and a task waiting; that task is still pending
SignaledBeforeReleaseWitness ==
  /\ taskId >= 2
  /\ observed[1] # NoSnapshot
  /\ observed[1].running = 1
  /\ observed[1].waiting >= 1
  /\ HasJob("finally", 1)
  /\ status[2] = "pending"

====
